---- MODULE Spec2Model ----
(***************************************************************************)
(* Model of the three validation scripts of blogs_pydantic:                *)
(*   v1_basic_validation.py, v2_semantic_validation.py,                    *)
(*   v3_schema_validation.py.                                              *)
(* Each script declares Teams, CareerStats and Player models and runs      *)
(* the Player constructor on the sample payload, followed by model_dump   *)
(* (v3 also reads model_extra).                                            *)
(* The declarations are evaluated with the semantics of the validation     *)
(* library in its default (lax) mode: fields are validated in declaration  *)
(* order, every validation error is collected, a ValueError raised by a    *)
(* field validator becomes a validation error, and any other exception     *)
(* raised by a field validator propagates to the caller.                   *)
(*                                                                         *)
(* Raw and typed values are tagged records [t, v].  Strings are sequences  *)
(* of one-character strings, so that split, indexing and parsing are       *)
(* computed.  Floats are held in tenths (19.0 is 190).                     *)
(***************************************************************************)
EXTENDS Integers, Sequences, FiniteSets, TLC

VARIABLES decl, input, pc, result, dumped, new_cols, result2

vars == <<decl, input, pc, result, dumped, new_cols, result2>>

----------------------------------------------------------------------------
(* Values *)

Absent == [t |-> "absent", v |-> 0]
Null == [t |-> "null", v |-> 0]
IntV(n) == [t |-> "int", v |-> n]
FltV(tenths) == [t |-> "float", v |-> tenths]
StrV(s) == [t |-> "str", v |-> s]
BoolV(b) == [t |-> "bool", v |-> b]
ListV(s) == [t |-> "list", v |-> s]
MapV(m) == [t |-> "map", v |-> m]
DateV(y, m, d) == [t |-> "date", v |-> <<y, m, d>>]
DateTimeV(y, m, d, hh, mm, ss, us) == [t |-> "datetime", v |-> <<y, m, d, hh, mm, ss, us>>]

Put(m, k, val) == [x \in (DOMAIN m) \cup {k} |-> IF x = k THEN val ELSE m[x]]
Del(m, k) == [x \in (DOMAIN m) \ {k} |-> m[x]]

----------------------------------------------------------------------------
(* Characters and string functions *)

Upper == {"A", "B", "C", "D", "E", "F", "G", "H", "I", "J", "K", "L", "M",
          "N", "O", "P", "Q", "R", "S", "T", "U", "V", "W", "X", "Y", "Z"}

DigitVal == [c \in {"0", "1", "2", "3", "4", "5", "6", "7", "8", "9"} |->
               CASE c = "0" -> 0 [] c = "1" -> 1 [] c = "2" -> 2 [] c = "3" -> 3
                 [] c = "4" -> 4 [] c = "5" -> 5 [] c = "6" -> 6 [] c = "7" -> 7
                 [] c = "8" -> 8 [] c = "9" -> 9]

IsDigits(s) == Len(s) > 0 /\ \A i \in 1..Len(s) : s[i] \in DOMAIN DigitVal

RECURSIVE Num(_)
Num(s) == IF s = <<>> THEN 0 ELSE 10 * Num(SubSeq(s, 1, Len(s) - 1)) + DigitVal[s[Len(s)]]

\* str.split(" "): every single space separates; empty tokens are kept.
RECURSIVE SplitFrom(_, _)
SplitFrom(s, cur) ==
    IF s = <<>> THEN <<cur>>
    ELSE IF Head(s) = " " THEN <<cur>> \o SplitFrom(Tail(s), <<>>)
    ELSE SplitFrom(Tail(s), Append(cur, Head(s)))

Split(s) == SplitFrom(s, <<>>)

\* str.isupper() of a one-character string.
IsUpper(c) == c \in Upper

----------------------------------------------------------------------------
(* Dates *)

IsLeap(y) == (y % 4 = 0 /\ y % 100 # 0) \/ y % 400 = 0

DaysIn(y, m) ==
    IF m = 2 THEN (IF IsLeap(y) THEN 29 ELSE 28)
    ELSE IF m \in {4, 6, 9, 11} THEN 30 ELSE 31

\* "YYYY-MM-DD"
IsDateString(s) ==
    /\ Len(s) = 10
    /\ s[5] = "-" /\ s[8] = "-"
    /\ IsDigits(SubSeq(s, 1, 4)) /\ IsDigits(SubSeq(s, 6, 7)) /\ IsDigits(SubSeq(s, 9, 10))
    /\ Num(SubSeq(s, 6, 7)) \in 1..12
    /\ Num(SubSeq(s, 9, 10)) \in 1..DaysIn(Num(SubSeq(s, 1, 4)), Num(SubSeq(s, 6, 7)))

ParseDate(s) == DateV(Num(SubSeq(s, 1, 4)), Num(SubSeq(s, 6, 7)), Num(SubSeq(s, 9, 10)))

\* "HH:MM:SS" with an optional fraction of one to six digits
IsTimeString(s) ==
    /\ Len(s) >= 8
    /\ s[3] = ":" /\ s[6] = ":"
    /\ IsDigits(SubSeq(s, 1, 2)) /\ IsDigits(SubSeq(s, 4, 5)) /\ IsDigits(SubSeq(s, 7, 8))
    /\ Num(SubSeq(s, 1, 2)) \in 0..23
    /\ Num(SubSeq(s, 4, 5)) \in 0..59
    /\ Num(SubSeq(s, 7, 8)) \in 0..59
    /\ \/ Len(s) = 8
       \/ /\ Len(s) \in 10..15
          /\ s[9] = "."
          /\ IsDigits(SubSeq(s, 10, Len(s)))

RECURSIVE Pow10(_)
Pow10(n) == IF n = 0 THEN 1 ELSE 10 * Pow10(n - 1)

Micros(s) == IF Len(s) = 8 THEN 0 ELSE Num(SubSeq(s, 10, Len(s))) * Pow10(15 - Len(s))

\* "YYYY-MM-DDTHH:MM:SS[.ffffff]" (the separator may also be a space)
IsDateTimeString(s) ==
    /\ Len(s) >= 19
    /\ IsDateString(SubSeq(s, 1, 10))
    /\ s[11] \in {"T", " "}
    /\ IsTimeString(SubSeq(s, 12, Len(s)))

ParseDateTime(s) ==
    LET d == ParseDate(SubSeq(s, 1, 10))
        tm == SubSeq(s, 12, Len(s))
    IN DateTimeV(d.v[1], d.v[2], d.v[3], Num(SubSeq(tm, 1, 2)), Num(SubSeq(tm, 4, 5)),
                Num(SubSeq(tm, 7, 8)), Micros(tm))

\* date.__lt__
DateLess(a, b) ==
    \/ a.v[1] < b.v[1]
    \/ a.v[1] = b.v[1] /\ a.v[2] < b.v[2]
    \/ a.v[1] = b.v[1] /\ a.v[2] = b.v[2] /\ a.v[3] < b.v[3]

----------------------------------------------------------------------------
(* Outcome of validating one value: the typed value, the collected errors, *)
(* or an exception that is not a validation error.                         *)

Err(type, ctx) == [loc |-> <<>>, type |-> type, ctx |-> ctx]
Ok(val) == [exc |-> FALSE, errs |-> <<>>, val |-> val]
Fail(type, ctx) == [exc |-> FALSE, errs |-> <<Err(type, ctx)>>, val |-> Absent]
Raise == [exc |-> TRUE, errs |-> <<>>, val |-> Absent]

Failed(res) == res.exc \/ res.errs # <<>>

\* An error found under a field or an index is reported under that path.
At(p, res) ==
    [res EXCEPT !.errs = [i \in 1..Len(res.errs) |->
                            [res.errs[i] EXCEPT !.loc = <<p>> \o @]]]

RECURSIVE ErrsOf(_, _)
ErrsOf(names, rs) ==
    IF names = <<>> THEN <<>> ELSE rs[Head(names)].errs \o ErrsOf(Tail(names), rs)

Range(s) == {s[i] : i \in 1..Len(s)}

\* Fields are validated in declaration order and all their errors are collected;
\* an exception leaves at once.
Collect(names, rs) ==
    IF \E n \in Range(names) : rs[n].exc THEN Raise
    ELSE IF ErrsOf(names, rs) # <<>>
    THEN [exc |-> FALSE, errs |-> ErrsOf(names, rs), val |-> Absent]
    ELSE Ok([t |-> "model", v |-> [n \in Range(names) |-> rs[n].val]])

Get(m, k) == IF k \in DOMAIN m THEN m[k] ELSE Absent

\* A field without a default: res is the outcome of its validator on the value.
Required(m, name, res) ==
    IF name \in DOMAIN m THEN At(name, res) ELSE At(name, Fail("missing", {}))

\* A field with a default: the default is taken as it is, without validation.
Defaulted(m, name, res, default) ==
    IF name \in DOMAIN m THEN At(name, res) ELSE Ok(default)

----------------------------------------------------------------------------
(* The library's validators for the declared types (lax mode) *)

IsIntString(s) == IsDigits(s) \/ (Len(s) > 1 /\ Head(s) = "-" /\ IsDigits(Tail(s)))
ParseInt(s) == IF Head(s) = "-" THEN 0 - Num(Tail(s)) ELSE Num(s)

ValidateInt(raw) ==
    CASE raw.t = "int" -> Ok(raw)
      [] raw.t = "bool" -> Ok(IntV(IF raw.v THEN 1 ELSE 0))
      [] raw.t = "float" -> IF raw.v % 10 = 0 THEN Ok(IntV(raw.v \div 10))
                            ELSE Fail("int_from_float", {})
      [] raw.t = "str" -> IF IsIntString(raw.v) THEN Ok(IntV(ParseInt(raw.v)))
                          ELSE Fail("int_parsing", {})
      [] OTHER -> Fail("int_type", {})

ValidateFloat(raw) ==
    CASE raw.t = "float" -> Ok(raw)
      [] raw.t = "int" -> Ok(FltV(10 * raw.v))
      [] raw.t = "bool" -> Ok(FltV(IF raw.v THEN 10 ELSE 0))
      [] raw.t = "str" -> IF IsIntString(raw.v) THEN Ok(FltV(10 * ParseInt(raw.v)))
                          ELSE Fail("float_parsing", {})
      [] OTHER -> Fail("float_type", {})

ValidateStr(raw) == IF raw.t = "str" THEN Ok(raw) ELSE Fail("string_type", {})

ValidateBool(raw) ==
    CASE raw.t = "bool" -> Ok(raw)
      [] raw.t = "int" -> IF raw.v \in {0, 1} THEN Ok(BoolV(raw.v = 1))
                          ELSE Fail("bool_parsing", {})
      [] raw.t = "float" -> IF raw.v \in {0, 10} THEN Ok(BoolV(raw.v = 10))
                            ELSE Fail("bool_parsing", {})
      [] raw.t = "str" -> IF raw.v \in {<<"1">>, <<"t", "r", "u", "e">>}
                          THEN Ok(BoolV(TRUE))
                          ELSE IF raw.v \in {<<"0">>, <<"f", "a", "l", "s", "e">>}
                          THEN Ok(BoolV(FALSE))
                          ELSE Fail("bool_parsing", {})
      [] OTHER -> Fail("bool_type", {})

MidnightOf(dt) == dt.v[4] = 0 /\ dt.v[5] = 0 /\ dt.v[6] = 0 /\ dt.v[7] = 0

ValidateDate(raw) ==
    CASE raw.t = "date" -> Ok(raw)
      [] raw.t = "datetime" -> IF MidnightOf(raw) THEN Ok(DateV(raw.v[1], raw.v[2], raw.v[3]))
                               ELSE Fail("date_from_datetime_inexact", {})
      [] raw.t = "str" ->
            IF IsDateString(raw.v) THEN Ok(ParseDate(raw.v))
            ELSE IF IsDateTimeString(raw.v)
            THEN (IF MidnightOf(ParseDateTime(raw.v))
                  THEN Ok(ParseDate(SubSeq(raw.v, 1, 10)))
                  ELSE Fail("date_from_datetime_inexact", {}))
            ELSE Fail("date_from_datetime_parsing", {})
      [] OTHER -> Fail("date_type", {})

ValidateDateTime(raw) ==
    CASE raw.t = "datetime" -> Ok(raw)
      [] raw.t = "date" -> Ok(DateTimeV(raw.v[1], raw.v[2], raw.v[3], 0, 0, 0, 0))
      [] raw.t = "str" ->
            IF IsDateTimeString(raw.v) THEN Ok(ParseDateTime(raw.v))
            ELSE IF IsDateString(raw.v)
            THEN Ok(DateTimeV(ParseDate(raw.v).v[1], ParseDate(raw.v).v[2],
                              ParseDate(raw.v).v[3], 0, 0, 0, 0))
            ELSE Fail("datetime_from_date_parsing", {})
      [] OTHER -> Fail("datetime_type", {})

\* Literal[...] of strings: equality with one of the members, case-sensitive.
ValidateLiteral(members, raw) ==
    IF raw.t = "str" /\ raw.v \in members THEN Ok(raw) ELSE Fail("literal_error", {})

\* Field(ge=bound), Field(gt=bound)
Ge(bound, res) ==
    IF Failed(res) THEN res
    ELSE IF res.val.v >= bound THEN res ELSE Fail("greater_than_equal", {bound})

Gt(bound, res) ==
    IF Failed(res) THEN res
    ELSE IF res.val.v > bound THEN res ELSE Fail("greater_than", {bound})

\* list[X]: rs holds the outcomes of the elements; each error goes under its index.
Items(raw) == IF raw.t = "list" THEN raw.v ELSE <<>>

ListOf(raw, rs) ==
    IF raw.t # "list" THEN Fail("list_type", {})
    ELSE LET idx == [i \in 1..Len(rs) |-> ToString(i - 1)]
             at == [i \in 1..Len(rs) |-> At(idx[i], rs[i])]
         IN IF \E i \in 1..Len(rs) : rs[i].exc THEN Raise
            ELSE IF ErrsOf(idx, [n \in Range(idx) |->
                                   at[CHOOSE i \in 1..Len(rs) : idx[i] = n]]) # <<>>
            THEN [exc |-> FALSE,
                  errs |-> ErrsOf(idx, [n \in Range(idx) |->
                                          at[CHOOSE i \in 1..Len(rs) : idx[i] = n]]),
                  val |-> Absent]
            ELSE Ok(ListV([i \in 1..Len(rs) |-> rs[i].val]))

\* ConfigDict(extra=...): "ignore" is the library's default when a model sets none.
ApplyExtra(policy, declared, m, res) ==
    LET unknown == (DOMAIN m) \ Range(declared)
        order == CHOOSE q \in [1..Cardinality(unknown) -> unknown] : Range(q) = unknown
        forbidden == [i \in 1..Cardinality(unknown) |->
                        [loc |-> <<order[i]>>, type |-> "extra_forbidden", ctx |-> {}]]
    IN CASE policy = "forbid" /\ ~res.exc /\ unknown # {} ->
                [exc |-> FALSE, errs |-> res.errs \o forbidden, val |-> Absent]
         [] policy = "allow" /\ ~Failed(res) ->
                [res EXCEPT !.val = [t |-> "model", v |-> res.val.v,
                                     extra |-> [k \in unknown |-> m[k]]]]
         [] OTHER -> res

----------------------------------------------------------------------------
(* v1_basic_validation.py *)

V1_schema ==
    [id |-> IntV(1),
     name |-> StrV(<<"T", "i", "m", " ", "D", "u", "n", "c", "a", "n">>),
     teams |-> ListV(<<MapV([name |-> StrV(<<"S", "a", "n", " ", "A", "n", "t", "o", "n", "i", "o", " ", "S", "p", "u", "r", "s">>),
                             championships |-> ListV(<<IntV(1999), IntV(2003), IntV(2005),
                                                       IntV(2007), IntV(2014)>>)])>>),
     career_stats |-> MapV([ppg |-> FltV(190), rpg |-> FltV(108), apg |-> FltV(30)]),
     dob |-> StrV(<<"1", "9", "7", "6", "-", "0", "4", "-", "2", "5">>),
     draft_year |-> IntV(1997),
     position_played |-> ListV(<<StrV(<<"F">>), StrV(<<"C">>)>>),
     is_active |-> BoolV(FALSE),
     last_updated |-> StrV(<<"2", "0", "2", "3", "-", "1", "0", "-", "1", "0", "T", "0", "0", ":", "0", "0", ":", "0", "0", ".", "0", "0", "0", "0">>)]

V1_Teams_name(raw) == ValidateStr(raw)
V1_Teams_championships(raw) ==
    ListOf(raw, [i \in 1..Len(Items(raw)) |-> ValidateInt(Items(raw)[i])])

V1_Teams_extra == "ignore"
V1_Teams_fields == <<"name", "championships">>
V1_Teams(raw) ==
    IF raw.t # "map" THEN Fail("model_type", {})
    ELSE ApplyExtra(V1_Teams_extra, V1_Teams_fields, raw.v,
            Collect(V1_Teams_fields,
                [name |-> Required(raw.v, "name", V1_Teams_name(Get(raw.v, "name"))),
                 championships |-> Required(raw.v, "championships",
                                      V1_Teams_championships(Get(raw.v, "championships")))]))

V1_CareerStats_extra == "ignore"
V1_CareerStats_fields == <<"ppg", "rpg", "apg">>
V1_CareerStats(raw) ==
    IF raw.t # "map" THEN Fail("model_type", {})
    ELSE ApplyExtra(V1_CareerStats_extra, V1_CareerStats_fields, raw.v,
            Collect(V1_CareerStats_fields,
                [ppg |-> Required(raw.v, "ppg", ValidateFloat(Get(raw.v, "ppg"))),
                 rpg |-> Required(raw.v, "rpg", ValidateFloat(Get(raw.v, "rpg"))),
                 apg |-> Required(raw.v, "apg", ValidateFloat(Get(raw.v, "apg")))]))

V1_Player_teams(raw) ==
    ListOf(raw, [i \in 1..Len(Items(raw)) |-> V1_Teams(Items(raw)[i])])
V1_Player_positions_played(raw) ==
    ListOf(raw, [i \in 1..Len(Items(raw)) |-> ValidateStr(Items(raw)[i])])

V1_Player_extra == "ignore"
V1_Player_fields ==
    <<"id", "name", "teams", "career_stats", "dob", "draft_year", "positions_played",
      "is_active", "last_updated">>
V1_Player_results(m) ==
    [id |-> Required(m, "id", ValidateInt(Get(m, "id"))),
     name |-> Required(m, "name", ValidateStr(Get(m, "name"))),
     teams |-> Required(m, "teams", V1_Player_teams(Get(m, "teams"))),
     career_stats |-> Required(m, "career_stats", V1_CareerStats(Get(m, "career_stats"))),
     dob |-> Required(m, "dob", ValidateDate(Get(m, "dob"))),
     draft_year |-> Required(m, "draft_year", ValidateInt(Get(m, "draft_year"))),
     positions_played |-> Required(m, "positions_played",
                             V1_Player_positions_played(Get(m, "positions_played"))),
     is_active |-> Required(m, "is_active", ValidateBool(Get(m, "is_active"))),
     last_updated |-> Required(m, "last_updated", ValidateDateTime(Get(m, "last_updated")))]

V1_Player(m) ==
    ApplyExtra(V1_Player_extra, V1_Player_fields, m,
        Collect(V1_Player_fields, V1_Player_results(m)))

----------------------------------------------------------------------------
(* v2_semantic_validation.py *)

V2_schema == V1_schema

FirstYear == 1949
\* the bound taken as exclusive
FirstYearInt_gt(raw) == Gt(FirstYear, ValidateInt(raw))
FirstYearInt(raw) == Ge(FirstYear, ValidateInt(raw))
PositionsEnum(raw) == ValidateLiteral({<<"C">>, <<"F">>, <<"G">>}, raw)
PositiveInt(raw) == Gt(0, ValidateInt(raw))
NonNegativeFloat(raw) == Ge(0, ValidateFloat(raw))

\* for name in names: if not name[0].isupper(): raise ValueError(...)
\* name[0] of an empty token raises IndexError.
RECURSIVE V2_Teams_names_loop(_)
V2_Teams_names_loop(names) ==
    IF names = <<>> THEN "return"
    ELSE IF Head(names) = <<>> THEN "IndexError"
    ELSE IF ~IsUpper(Head(names)[1]) THEN "ValueError"
    ELSE V2_Teams_names_loop(Tail(names))

V2_Teams_validate_upper_case_names(value) ==
    LET end == V2_Teams_names_loop(Split(value.v))
    IN CASE end = "return" -> Ok(value)
         [] end = "ValueError" -> Fail("value_error", {})
         [] end = "IndexError" -> Raise

V2_Teams_name(raw) ==
    IF Failed(ValidateStr(raw)) THEN ValidateStr(raw)
    ELSE V2_Teams_validate_upper_case_names(ValidateStr(raw).val)
V2_Teams_championships(raw) ==
    ListOf(raw, [i \in 1..Len(Items(raw)) |-> FirstYearInt(Items(raw)[i])])

V2_Teams_extra == "ignore"
V2_Teams_fields == <<"name", "championships">>
V2_Teams(raw) ==
    IF raw.t # "map" THEN Fail("model_type", {})
    ELSE ApplyExtra(V2_Teams_extra, V2_Teams_fields, raw.v,
            Collect(V2_Teams_fields,
                [name |-> Required(raw.v, "name", V2_Teams_name(Get(raw.v, "name"))),
                 championships |-> Required(raw.v, "championships",
                                      V2_Teams_championships(Get(raw.v, "championships")))]))

V2_CareerStats_extra == "ignore"
V2_CareerStats_fields == <<"ppg", "rpg", "apg">>
V2_CareerStats(raw) ==
    IF raw.t # "map" THEN Fail("model_type", {})
    ELSE ApplyExtra(V2_CareerStats_extra, V2_CareerStats_fields, raw.v,
            Collect(V2_CareerStats_fields,
                [ppg |-> Required(raw.v, "ppg", NonNegativeFloat(Get(raw.v, "ppg"))),
                 rpg |-> Required(raw.v, "rpg", NonNegativeFloat(Get(raw.v, "rpg"))),
                 apg |-> Required(raw.v, "apg", NonNegativeFloat(Get(raw.v, "apg")))]))

V2_Player_teams(raw) ==
    ListOf(raw, [i \in 1..Len(Items(raw)) |-> V2_Teams(Items(raw)[i])])
V2_Player_position_played(raw) ==
    ListOf(raw, [i \in 1..Len(Items(raw)) |-> PositionsEnum(Items(raw)[i])])

RECURSIVE V2_Player_names_loop(_)
V2_Player_names_loop(names) ==
    IF names = <<>> THEN "return"
    ELSE IF Head(names) = <<>> THEN "IndexError"
    ELSE IF ~IsUpper(Head(names)[1]) THEN "ValueError"
    ELSE V2_Player_names_loop(Tail(names))

V2_Player_validate_upper_case_names(value) ==
    LET end == V2_Player_names_loop(Split(value.v))
    IN CASE end = "return" -> Ok(value)
         [] end = "ValueError" -> Fail("value_error", {})
         [] end = "IndexError" -> Raise

V2_Player_validate_dob(value) ==
    IF DateLess(value, DateV(1900, 1, 1)) THEN Fail("value_error", {}) ELSE Ok(value)

V2_Player_name(raw) ==
    IF Failed(ValidateStr(raw)) THEN ValidateStr(raw)
    ELSE V2_Player_validate_upper_case_names(ValidateStr(raw).val)

V2_Player_dob(raw) ==
    IF Failed(ValidateDate(raw)) THEN ValidateDate(raw)
    ELSE V2_Player_validate_dob(ValidateDate(raw).val)

\* unknown keys forbidden
V2_Player_extra_forbid == "forbid"
V2_Player_extra == "ignore"
V2_Player_fields ==
    <<"id", "name", "teams", "career_stats", "dob", "draft_year", "position_played",
      "is_active", "last_updated">>
V2_Player_results(m) ==
    [id |-> Required(m, "id", PositiveInt(Get(m, "id"))),
     name |-> Required(m, "name", V2_Player_name(Get(m, "name"))),
     teams |-> Required(m, "teams", V2_Player_teams(Get(m, "teams"))),
     career_stats |-> Required(m, "career_stats", V2_CareerStats(Get(m, "career_stats"))),
     dob |-> Required(m, "dob", V2_Player_dob(Get(m, "dob"))),
     draft_year |-> Required(m, "draft_year", FirstYearInt(Get(m, "draft_year"))),
     position_played |-> Required(m, "position_played",
                            V2_Player_position_played(Get(m, "position_played"))),
     is_active |-> Required(m, "is_active", ValidateBool(Get(m, "is_active"))),
     last_updated |-> Required(m, "last_updated", ValidateDateTime(Get(m, "last_updated")))]

V2_Player(m) ==
    ApplyExtra(V2_Player_extra, V2_Player_fields, m,
        Collect(V2_Player_fields, V2_Player_results(m)))

----------------------------------------------------------------------------
(* v3_schema_validation.py *)

V3_schema ==
    [id |-> IntV(1),
     name |-> StrV(<<"T", "i", "m", " ", "D", "u", "n", "c", "a", "n">>),
     teams |-> ListV(<<MapV([name |-> StrV(<<"S", "a", "n", " ", "A", "n", "t", "o", "n", "i", "o", " ", "S", "p", "u", "r", "s">>),
                             championships |-> ListV(<<IntV(1999), IntV(2003), IntV(2005),
                                                       IntV(2007), IntV(2014)>>)])>>),
     career_stats |-> MapV([ppg |-> FltV(190), rpg |-> FltV(108), apg |-> FltV(30)]),
     height |-> StrV(<<"6", " ", "f", "e", "e", "t", " ", "1", "1", " ", "i", "n", "c", "h", "e", "s">>),
     draft_year |-> IntV(1997),
     positions_played |-> ListV(<<StrV(<<"F">>), StrV(<<"C">>)>>),
     is_active |-> BoolV(FALSE),
     last_updated |-> Null]

V3_Teams_name(raw) == ValidateStr(raw)
V3_Teams_championships(raw) ==
    ListOf(raw, [i \in 1..Len(Items(raw)) |-> ValidateInt(Items(raw)[i])])

V3_Teams_extra == "ignore"
V3_Teams_fields == <<"name", "championships">>
V3_Teams(raw) ==
    IF raw.t # "map" THEN Fail("model_type", {})
    ELSE ApplyExtra(V3_Teams_extra, V3_Teams_fields, raw.v,
            Collect(V3_Teams_fields,
                [name |-> Required(raw.v, "name", V3_Teams_name(Get(raw.v, "name"))),
                 championships |-> Required(raw.v, "championships",
                                      V3_Teams_championships(Get(raw.v, "championships")))]))

V3_CareerStats_extra == "ignore"
V3_CareerStats_fields == <<"ppg", "rpg", "apg">>
V3_CareerStats(raw) ==
    IF raw.t # "map" THEN Fail("model_type", {})
    ELSE ApplyExtra(V3_CareerStats_extra, V3_CareerStats_fields, raw.v,
            Collect(V3_CareerStats_fields,
                [ppg |-> Required(raw.v, "ppg", ValidateFloat(Get(raw.v, "ppg"))),
                 rpg |-> Required(raw.v, "rpg", ValidateFloat(Get(raw.v, "rpg"))),
                 apg |-> Required(raw.v, "apg", ValidateFloat(Get(raw.v, "apg")))]))

V3_Player_teams(raw) ==
    ListOf(raw, [i \in 1..Len(Items(raw)) |-> V3_Teams(Items(raw)[i])])
V3_Player_positions_played(raw) ==
    ListOf(raw, [i \in 1..Len(Items(raw)) |-> ValidateStr(Items(raw)[i])])

\* model_config left out
V3_Player_extra_ignore == "ignore"
V3_Player_extra == "allow"
V3_Player_fields ==
    <<"id", "name", "teams", "career_stats", "dob", "draft_year", "positions_played",
      "is_active", "last_updated">>

\* dob declared as date | None = None
V3_Player_dob_nullable(m) ==
    Defaulted(m, "dob",
              IF Get(m, "dob").t = "null" THEN Ok(Null) ELSE ValidateDate(Get(m, "dob")),
              Null)
\* dob: date = None
V3_Player_dob(m) == Defaulted(m, "dob", ValidateDate(Get(m, "dob")), Null)

\* last_updated: datetime | None
V3_Player_last_updated(m) ==
    Required(m, "last_updated",
             IF Get(m, "last_updated").t = "null" THEN Ok(Null)
             ELSE ValidateDateTime(Get(m, "last_updated")))

V3_Player_results(m) ==
    [id |-> Required(m, "id", ValidateInt(Get(m, "id"))),
     name |-> Required(m, "name", ValidateStr(Get(m, "name"))),
     teams |-> Required(m, "teams", V3_Player_teams(Get(m, "teams"))),
     career_stats |-> Required(m, "career_stats", V3_CareerStats(Get(m, "career_stats"))),
     dob |-> V3_Player_dob(m),
     draft_year |-> Required(m, "draft_year", ValidateInt(Get(m, "draft_year"))),
     positions_played |-> Required(m, "positions_played",
                             V3_Player_positions_played(Get(m, "positions_played"))),
     is_active |-> Required(m, "is_active", ValidateBool(Get(m, "is_active"))),
     last_updated |-> V3_Player_last_updated(m)]

V3_Player(m) ==
    ApplyExtra(V3_Player_extra, V3_Player_fields, m,
        Collect(V3_Player_fields, V3_Player_results(m)))

----------------------------------------------------------------------------
(* The scripts' main blocks *)

NoResult == [kind |-> "None", errors |-> <<>>, value |-> <<>>, extra |-> <<>>]

\* Player(**schema): the instance, a ValidationError, or another exception.
Outcome(res) ==
    IF res.exc THEN [kind |-> "Exception", errors |-> <<>>, value |-> <<>>, extra |-> <<>>]
    ELSE IF res.errs # <<>>
    THEN [kind |-> "ValidationError", errors |-> res.errs, value |-> <<>>, extra |-> <<>>]
    ELSE [kind |-> "Record", errors |-> <<>>, value |-> res.val.v,
          extra |-> IF "extra" \in DOMAIN res.val THEN res.val.extra ELSE <<>>]

Player(d, m) ==
    CASE d = "v1" -> Outcome(V1_Player(m))
      [] d = "v2" -> Outcome(V2_Player(m))
      [] d = "v3" -> Outcome(V3_Player(m))

\* model_dump(): nested models become mappings, extra fields are included.
RECURSIVE DumpValue(_)
DumpValue(x) ==
    CASE x.t = "model" -> MapV([k \in DOMAIN x.v |-> DumpValue(x.v[k])])
      [] x.t = "list" -> ListV([i \in 1..Len(x.v) |-> DumpValue(x.v[i])])
      [] OTHER -> x

model_dump(r) ==
    [k \in (DOMAIN r.value) \cup (DOMAIN r.extra) |->
        IF k \in DOMAIN r.value THEN DumpValue(r.value[k]) ELSE r.extra[k]]

\* player.model_extra, and the keys the loop over new_cols prints
model_extra(r) == r.extra
NewColumns(r) == DOMAIN model_extra(r)

----------------------------------------------------------------------------
(* Payloads: a script's sample payload with at most MaxEdits changes *)

MaxEdits == 1
MaxTeams == 2

Keys == {"id", "name", "teams", "career_stats", "dob", "draft_year", "position_played",
         "positions_played", "is_active", "last_updated", "height"}

NameStrings == {<<>>, <<"T", "i", "m">>, <<"t", "i", "m">>, <<"T", "i", "m", " ", "d", "u", "n", "c", "a", "n">>, <<"t", "i", "m", " ", "d", "u", "n", "c", "a", "n">>, <<"T", "i", "m", " ", " ", "D", "u", "n", "c", "a", "n">>, <<" ", "T", "i", "m">>, <<"T", "i", "m", " ">>, <<"t", "i", "m", " ">>}

TeamNameStrings == {<<>>, <<"S", "a", "n", " ", " ", "a", "n", "t", "o", "n", "i", "o">>, <<"L", "a", "k", "e", "r", "s">>, <<"s", "a", "n", " ", "a", "n", "t", "o", "n", "i", "o", " ", "s", "p", "u", "r", "s">>, <<"S", "a", "n", " ", "a", "n", "t", "o", "n", "i", "o", " ", "S", "p", "u", "r", "s">>, <<"S", "a", "n", " ", " ", "A", "n", "t", "o", "n", "i", "o">>, <<"S", "p", "u", "r", "s", " ">>}

YearLists ==
    {ListV(<<>>), ListV(<<IntV(1948)>>), ListV(<<IntV(1949)>>),
     ListV(<<IntV(1948), IntV(1999), IntV(1900)>>),
     ListV(<<IntV(1999), StrV(<<"x">>), IntV(1948)>>)}

PositionLists ==
    {ListV(<<>>), ListV(<<StrV(<<"C">>), StrV(<<"F">>), StrV(<<"G">>)>>), ListV(<<StrV(<<"c">>)>>), ListV(<<StrV(<<"F">>), StrV(<<"X">>), StrV(<<"c">>)>>)}

ValuesAt(k) ==
    CASE k = "id" -> {Null, IntV(0), StrV(<<"1">>), StrV(<<"x">>)}
      [] k = "name" -> {IntV(1)} \cup {StrV(n) : n \in NameStrings}
      [] k = "teams" -> {Null, ListV(<<>>)}
      [] k = "career_stats" -> {Null}
      [] k = "dob" -> {Null, StrV(<<"1", "8", "9", "9", "-", "1", "2", "-", "3", "1">>), StrV(<<"1", "9", "0", "0", "-", "0", "1", "-", "0", "1">>), StrV(<<"1", "9", "7", "6", "-", "1", "3", "-", "0", "1">>)}
      [] k = "draft_year" -> {IntV(1920), IntV(1948), IntV(1949), StrV(<<"x">>)}
      [] k = "position_played" -> PositionLists
      [] k = "positions_played" -> PositionLists
      [] k = "is_active" -> {Null, BoolV(TRUE), StrV(<<"x">>)}
      [] k = "last_updated" -> {Null, StrV(<<"2", "0", "2", "3", "-", "1", "0", "-", "1", "0", "T", "0", "0", ":", "0", "0", ":", "0", "0", ".", "0", "0", "0", "0">>), StrV(<<"x">>)}
      [] k = "height" -> {StrV(<<"6", " ", "f", "e", "e", "t", " ", "1", "1", " ", "i", "n", "c", "h", "e", "s">>), IntV(211)}

TeamValuesAt(k) ==
    CASE k = "name" -> {IntV(1)} \cup {StrV(n) : n \in TeamNameStrings}
      [] k = "championships" -> {Null} \cup YearLists

\* whole elements of teams
TeamValues ==
    {Null,
     MapV([name |-> StrV(<<>>)]),
     MapV([name |-> StrV(<<"S", "p", "u", "r", "s", " ">>), championships |-> ListV(<<IntV(1948), IntV(1999)>>)]),
     MapV([name |-> StrV(<<"s", "p", "u", "r", "s">>), championships |-> ListV(<<IntV(1948), IntV(1999)>>)])}

StatValues == {FltV(0 - 1), IntV(19), StrV(<<"x">>)}

SampleTeam == V1_schema.teams.v[1]

TeamEdits(f) ==
    IF "teams" \in DOMAIN f /\ f.teams.t = "list"
    THEN LET ts == f.teams.v
         IN {Put(f, "teams", ListV([ts EXCEPT ![i] = MapV(Put(ts[i].v, k, val))])) :
                <<i, k, val>> \in {<<i, k, val>> \in
                    (1..Len(ts)) \X {"name", "championships"} \X
                        (TeamValuesAt("name") \cup TeamValuesAt("championships")) :
                    ts[i].t = "map" /\ val \in TeamValuesAt(k)}}
            \cup {Put(f, "teams", ListV([ts EXCEPT ![i] = MapV(Del(ts[i].v, k))])) :
                <<i, k>> \in {<<i, k>> \in (1..Len(ts)) \X {"name", "championships"} :
                    ts[i].t = "map" /\ k \in DOMAIN ts[i].v}}
            \cup {Put(f, "teams", ListV([ts EXCEPT ![i] = val])) :
                    i \in 1..Len(ts), val \in TeamValues}
            \cup (IF Len(ts) < MaxTeams
                  THEN {Put(f, "teams", ListV(Append(ts, SampleTeam)))} ELSE {})
    ELSE {}

StatEdits(f) ==
    IF "career_stats" \in DOMAIN f /\ f.career_stats.t = "map"
    THEN LET cs == f.career_stats.v
         IN {Put(f, "career_stats", MapV(Put(cs, k, val))) :
                k \in {"ppg", "rpg", "apg"}, val \in StatValues}
            \cup {Put(f, "career_stats", MapV(Del(cs, k))) : k \in DOMAIN cs}
    ELSE {}

OneEdit(f) ==
    UNION {{Put(f, k, val) : val \in ValuesAt(k)} : k \in Keys}
    \cup {Del(f, k) : k \in DOMAIN f}
    \cup TeamEdits(f)
    \cup StatEdits(f)

RECURSIVE EditsOf(_, _)
EditsOf(fs, n) ==
    IF n = 0 THEN fs ELSE EditsOf(fs \cup UNION {OneEdit(f) : f \in fs}, n - 1)

schema(d) ==
    CASE d = "v1" -> V1_schema
      [] d = "v2" -> V2_schema
      [] d = "v3" -> V3_schema

Payloads(d) == EditsOf({schema(d)}, MaxEdits)

----------------------------------------------------------------------------
(* State machine *)

Init ==
    /\ decl \in {"v1", "v2", "v3"}
    /\ input \in Payloads(decl)
    /\ pc = "start"
    /\ result = NoResult
    /\ dumped = <<>>
    /\ new_cols = {}
    /\ result2 = NoResult

\* player = Player(**schema)
V1_Construct ==
    /\ pc = "start" /\ decl = "v1"
    /\ result' = Player("v1", input)
    /\ pc' = IF result'.kind = "Record" THEN "constructed" ELSE "raised"
    /\ UNCHANGED <<decl, input, dumped, new_cols, result2>>

V2_Construct ==
    /\ pc = "start" /\ decl = "v2"
    /\ result' = Player("v2", input)
    /\ pc' = IF result'.kind = "Record" THEN "constructed" ELSE "raised"
    /\ UNCHANGED <<decl, input, dumped, new_cols, result2>>

V3_Construct ==
    /\ pc = "start" /\ decl = "v3"
    /\ result' = Player("v3", input)
    /\ pc' = IF result'.kind = "Record" THEN "constructed" ELSE "raised"
    /\ UNCHANGED <<decl, input, dumped, new_cols, result2>>

\* print(player.model_dump())
ModelDump ==
    /\ pc = "constructed"
    /\ dumped' = model_dump(result)
    /\ pc' = "dumped"
    /\ UNCHANGED <<decl, input, result, new_cols, result2>>

\* new_cols = player.model_extra; for col in new_cols.keys(): print(...)
V3_ModelExtra ==
    /\ pc = "dumped" /\ decl = "v3"
    /\ new_cols' = NewColumns(result)
    /\ pc' = "reported"
    /\ UNCHANGED <<decl, input, result, dumped, result2>>

\* the dumped mapping given to the same declaration again
Revalidate ==
    /\ pc \in {"dumped", "reported"}
    /\ result2 = NoResult
    /\ result2' = Player(decl, dumped)
    /\ UNCHANGED <<decl, input, pc, result, dumped, new_cols>>

Next ==
    \/ V1_Construct
    \/ V2_Construct
    \/ V3_Construct
    \/ ModelDump
    \/ V3_ModelExtra
    \/ Revalidate

Spec == Init /\ [][Next]_vars

----------------------------------------------------------------------------
(* Vocabulary of the properties *)

PlayerFields(d) ==
    CASE d = "v1" -> V1_Player_fields
      [] d = "v2" -> V2_Player_fields
      [] d = "v3" -> V3_Player_fields

PlayerResults(d, m) ==
    CASE d = "v1" -> V1_Player_results(m)
      [] d = "v2" -> V2_Player_results(m)
      [] d = "v3" -> V3_Player_results(m)

Declared(d) == Range(PlayerFields(d))
Unknown(d, m) == (DOMAIN m) \ Declared(d)
Known(d, m) == [k \in (DOMAIN m) \cap Declared(d) |-> m[k]]

\* the violations of the fields, each field taken on its own
FieldErrors(d, m) == ErrsOf(PlayerFields(d), PlayerResults(d, m))

\* the four kinds of violation of the specification
KindOf(e) ==
    CASE e.type = "missing" -> "missing"
      [] e.type = "extra_forbidden" -> "unknown_field"
      [] e.type \in {"greater_than", "greater_than_equal", "value_error"} ->
            "constraint_violation"
      [] OTHER -> "type_error"

CountAt(errs, loc) == Cardinality({i \in 1..Len(errs) : errs[i].loc = loc})
CountKindAt(errs, loc, kind) ==
    Cardinality({i \in 1..Len(errs) : errs[i].loc = loc /\ KindOf(errs[i]) = kind})

Validated == pc # "start"

\* the required fields that the payload lacks, nested ones included
AbsentRequired(d, m) ==
    {<<n>> : n \in (Declared(d) \ (IF d = "v3" THEN {"dob"} ELSE {})) \ DOMAIN m}
    \cup (IF "teams" \in DOMAIN m /\ m.teams.t = "list"
          THEN UNION {{<<"teams", ToString(i - 1), k>> :
                          k \in {"name", "championships"} \ DOMAIN m.teams.v[i].v} :
                      i \in {j \in 1..Len(m.teams.v) : m.teams.v[j].t = "map"}}
          ELSE {})
    \cup (IF "career_stats" \in DOMAIN m /\ m.career_stats.t = "map"
          THEN {<<"career_stats", k>> : k \in {"ppg", "rpg", "apg"} \ DOMAIN m.career_stats.v}
          ELSE {})

\* the sequences of the v2 payload that reach element-wise validation, with their paths
V2_Sequences(m) ==
    (IF "position_played" \in DOMAIN m /\ m.position_played.t = "list"
     THEN {[path |-> <<"position_played">>, items |-> m.position_played.v, of |-> "position"]}
     ELSE {})
    \cup (IF "teams" \in DOMAIN m /\ m.teams.t = "list"
          THEN {[path |-> <<"teams", ToString(i - 1), "championships">>,
                 items |-> m.teams.v[i].v.championships.v, of |-> "year"] :
                   i \in {j \in 1..Len(m.teams.v) :
                            /\ m.teams.v[j].t = "map"
                            /\ "championships" \in DOMAIN m.teams.v[j].v
                            /\ m.teams.v[j].v.championships.t = "list"}}
          ELSE {})

\* an element that fails coercion or its constraint
BadElement(of, x) ==
    IF of = "year" THEN ~(x.t = "int" /\ x.v >= 1949)
    ELSE ~(x.t = "str" /\ x.v \in {<<"C">>, <<"F">>, <<"G">>})

\* the team names of the v2 payload that are strings, with their paths
V2_TeamNames(m) ==
    IF "teams" \in DOMAIN m /\ m.teams.t = "list"
    THEN {[path |-> <<"teams", ToString(i - 1), "name">>, name |-> m.teams.v[i].v.name.v] :
            i \in {j \in 1..Len(m.teams.v) :
                     /\ m.teams.v[j].t = "map"
                     /\ "name" \in DOMAIN m.teams.v[j].v
                     /\ m.teams.v[j].v.name.t = "str"}}
    ELSE {}

Words(s) == {w \in Range(Split(s)) : w # <<>>}
SomeWordNotCapitalized(s) == \E w \in Words(s) : ~IsUpper(w[1])
AllWordsCapitalized(s) == \A w \in Range(Split(s)) : w # <<>> /\ IsUpper(w[1])

----------------------------------------------------------------------------
(* Properties *)

\* C1: for every declaration and every payload, construction ends in a validated
\* record or a validation error; no other exception leaves it.
C1_NoExceptionEscapes ==
    Validated => result.kind \in {"Record", "ValidationError"}

\* C1, the failing case: a v2 payload whose name has an empty token.
C1_IndexErrorEscapes ==
    Validated /\ decl = "v2" /\ result.kind = "Exception"

\* C2: a record is returned exactly when no field has a violation; otherwise the
\* result is a validation error listing the violations of every field, and no
\* partial record is returned.
C2_AllOrNothingExhaustive ==
    Validated =>
        /\ result.kind = "Record" <=> FieldErrors(decl, input) = <<>>
        /\ FieldErrors(decl, input) # <<>> =>
              result.kind = "ValidationError" /\ result.errors = FieldErrors(decl, input)
        /\ result.kind # "Record" => DOMAIN result.value = {}

\* C2 on the payloads on which no field validator raises IndexError.
C2_UnlessIndexError ==
    Validated /\ result.kind # "Exception" =>
        /\ result.kind = "Record" <=> FieldErrors(decl, input) = <<>>
        /\ FieldErrors(decl, input) # <<>> =>
              result.kind = "ValidationError" /\ result.errors = FieldErrors(decl, input)
        /\ result.kind # "Record" => DOMAIN result.value = {}

\* C3: every required field that the payload lacks is reported by exactly one
\* missing-field violation at its path, and by no type error there.
C3_MissingFieldReported ==
    Validated =>
        \A p \in AbsentRequired(decl, input) :
            /\ CountKindAt(result.errors, p, "missing") = 1
            /\ CountKindAt(result.errors, p, "type_error") = 0

\* C3 on the payloads on which no field validator raises IndexError.
C3_UnlessIndexError ==
    Validated /\ result.kind # "Exception" =>
        \A p \in AbsentRequired(decl, input) :
            /\ CountAt(result.errors, p) = 1
            /\ CountKindAt(result.errors, p, "missing") = 1

\* C3: the v1 sample payload itself, which carries position_played instead of the
\* declared positions_played.
C3_V1SampleMissesPositionsPlayed ==
    Validated /\ decl = "v1" /\ input = V1_schema =>
        /\ result.kind = "ValidationError"
        /\ Len(result.errors) = 1
        /\ result.errors[1].loc = <<"positions_played">>
        /\ result.errors[1].type = "missing"

\* C4: the dump of a validated record, given to the same declaration again, has
\* no violation.
C4_RoundTrip ==
    result2.kind # "None" => result2.kind = "Record"

\* C4 for the v1 and v2 declarations, and for v3 when the record's dob is a date.
C4_RoundTripWithDob ==
    result2.kind # "None" /\ (decl = "v3" => result.value.dob.t = "date") =>
        result2.kind = "Record" /\ result2.value = result.value

\* C5 as stated: without a policy of its own a declaration rejects unknown keys, one
\* unknown_field violation for each, and such a payload never yields a record.
C5_UnknownKeysRejected ==
    Validated /\ decl \in {"v1", "v2"} =>
        \A k \in Unknown(decl, input) :
            /\ CountKindAt(result.errors, <<k>>, "unknown_field") = 1
            /\ result.kind # "Record"

\* C5 amended: without a policy of its own a declaration (the v1 and v2 Player)
\* ignores unknown keys: none of them produces a violation, the outcome is that of
\* the payload without them, and a record holds the declared fields only.
C5_UnknownKeysIgnored ==
    Validated /\ decl \in {"v1", "v2"} =>
        /\ \A k \in Unknown(decl, input) : CountAt(result.errors, <<k>>) = 0
        /\ result = Player(decl, Known(decl, input))
        /\ result.kind = "Record" =>
              DOMAIN result.value = Declared(decl) /\ DOMAIN result.extra = {}

C5_Witness ==
    /\ Validated /\ decl = "v2"
    /\ "height" \in Unknown(decl, input)
    /\ result.kind = "Record"

\* C6: under the allow policy (v3 Player) a payload whose declared fields all
\* validate yields a record of exactly the declared fields, with an extra-fields bag
\* whose keys are the payload's keys that are not declared and whose values are the
\* raw payload values; no unknown key produces a violation.
C6_ExtraFieldsBag ==
    Validated /\ decl = "v3" =>
        /\ \A k \in Unknown(decl, input) : CountAt(result.errors, <<k>>) = 0
        /\ FieldErrors(decl, input) = <<>> =>
              /\ result.kind = "Record"
              /\ DOMAIN result.value = Declared(decl)
              /\ DOMAIN model_extra(result) = Unknown(decl, input)
              /\ \A k \in Unknown(decl, input) : model_extra(result)[k] = input[k]
              /\ pc = "reported" => new_cols = Unknown(decl, input)

C6_Witness ==
    /\ decl = "v3" /\ pc = "reported"
    /\ new_cols = {"height"}
    /\ result.extra.height = IntV(211)

\* C7: in a sequence field of v2 every element that fails gives exactly one violation
\* at field[i], and every element that passes gives none.
C7_ElementwiseViolations ==
    Validated /\ decl = "v2" =>
        \A q \in V2_Sequences(input) :
            \A i \in 1..Len(q.items) :
                CountAt(result.errors, Append(q.path, ToString(i - 1))) =
                    (IF BadElement(q.of, q.items[i]) THEN 1 ELSE 0)

\* C7 on the payloads on which no field validator raises IndexError.
C7_UnlessIndexError ==
    Validated /\ decl = "v2" /\ result.kind # "Exception" =>
        \A q \in V2_Sequences(input) :
            /\ CountAt(result.errors, q.path) = 0
            /\ \A i \in 1..Len(q.items) :
                CountAt(result.errors, Append(q.path, ToString(i - 1))) =
                    (IF BadElement(q.of, q.items[i]) THEN 1 ELSE 0)

\* C8: in v2, with every other field valid, an integer draft_year of 1949 or more
\* is accepted, and one below 1949 gives exactly one constraint violation at
\* draft_year, with the bound 1949, and no record.
C8_DraftYearBound ==
    /\ Validated /\ decl = "v2"
    /\ "draft_year" \in DOMAIN input /\ input.draft_year.t = "int"
    /\ \A n \in Declared("v2") \ {"draft_year"} : ~Failed(V2_Player_results(input)[n])
    => IF input.draft_year.v >= 1949
       THEN result.kind = "Record" /\ result.value.draft_year = input.draft_year
       ELSE /\ result.kind = "ValidationError"
            /\ Len(result.errors) = 1
            /\ result.errors[1].loc = <<"draft_year">>
            /\ KindOf(result.errors[1]) = "constraint_violation"
            /\ result.errors[1].ctx = {1949}

C8_Witness ==
    /\ Validated /\ decl = "v2"
    /\ "draft_year" \in DOMAIN input /\ input.draft_year = IntV(1949)
    /\ result.kind = "Record"

\* C9: in v2 a team name with a word that does not start with an upper-case letter
\* gives exactly one constraint violation at teams[i].name, however many words fail;
\* a name whose words all start with an upper-case letter gives none.
C9_TeamNameCapitalized ==
    Validated /\ decl = "v2" =>
        \A q \in V2_TeamNames(input) :
            /\ SomeWordNotCapitalized(q.name) =>
                  /\ CountAt(result.errors, q.path) = 1
                  /\ CountKindAt(result.errors, q.path, "constraint_violation") = 1
            /\ AllWordsCapitalized(q.name) => CountAt(result.errors, q.path) = 0

\* C9 on the payloads on which no field validator raises IndexError.
C9_UnlessIndexError ==
    Validated /\ decl = "v2" /\ result.kind # "Exception" =>
        \A q \in V2_TeamNames(input) :
            /\ SomeWordNotCapitalized(q.name) =>
                  /\ CountAt(result.errors, q.path) = 1
                  /\ CountKindAt(result.errors, q.path, "constraint_violation") = 1
            /\ AllWordsCapitalized(q.name) => CountAt(result.errors, q.path) = 0

\* C10 as stated: in v3, dob accepts an absent key and a null, and last_updated
\* accepts neither.
C10_NullAndAbsentByDefault ==
    Validated /\ decl = "v3" =>
        /\ "dob" \notin DOMAIN input => CountAt(result.errors, <<"dob">>) = 0
        /\ "dob" \in DOMAIN input /\ input.dob = Null =>
              CountAt(result.errors, <<"dob">>) = 0
        /\ "last_updated" \notin DOMAIN input =>
              CountAt(result.errors, <<"last_updated">>) = 1
        /\ "last_updated" \in DOMAIN input /\ input.last_updated = Null =>
              CountAt(result.errors, <<"last_updated">>) = 1

\* C10 amended: in v3 an absent key is accepted exactly for the field that declares
\* a default (dob), and a null exactly for the field whose type admits it
\* (last_updated): dob accepts an absent key and rejects a null with one type error;
\* last_updated accepts a null and rejects an absent key with one missing-field
\* violation.
C10_AbsentByDefaultNullByType ==
    Validated /\ decl = "v3" =>
        /\ "dob" \notin DOMAIN input => CountAt(result.errors, <<"dob">>) = 0
        /\ "dob" \in DOMAIN input /\ input.dob = Null =>
              /\ CountAt(result.errors, <<"dob">>) = 1
              /\ CountKindAt(result.errors, <<"dob">>, "type_error") = 1
        /\ "last_updated" \notin DOMAIN input =>
              /\ CountAt(result.errors, <<"last_updated">>) = 1
              /\ CountKindAt(result.errors, <<"last_updated">>, "missing") = 1
        /\ "last_updated" \in DOMAIN input /\ input.last_updated = Null =>
              CountAt(result.errors, <<"last_updated">>) = 0

C10_Witness ==
    /\ Validated /\ decl = "v3"
    /\ "dob" \in DOMAIN input /\ input.dob = Null
    /\ input.last_updated = Null
    /\ CountAt(result.errors, <<"dob">>) = 1

====
